---- MODULE Spec2Model ----
(***************************************************************************)
(* Model of email_generator.py: the command-line entry point, the bounded  *)
(* retry loop of generate_application_email and the post-processing that   *)
(* removes a model-written sign-off and appends the mandatory closing.     *)
(*                                                                         *)
(* A Python str is modelled as a sequence of Unicode code points, so that  *)
(* "Hi" is <<72, 105>>.  Indexes named idx are 0-based as in Python.       *)
(***************************************************************************)
EXTENDS Integers, Sequences, FiniteSets

VARIABLES pc, argc, jd_file, resume_file, job_description, resume_data,
          exit_status, printed, i, last_delay, sleeps, posts,
          raw_content, after_primary, after_secondary, after_contact,
          email_draft

vars == <<pc, argc, jd_file, resume_file, job_description, resume_data,
          exit_status, printed, i, last_delay, sleeps, posts,
          raw_content, after_primary, after_secondary, after_contact,
          email_draft>>

(***************************************************************************)
(* Optional values: None, or a one-element tuple holding the value.        *)
(***************************************************************************)
None == << >>

Some(v) == <<v>>

Min(a, b) == IF a < b THEN a ELSE b

Max(a, b) == IF a > b THEN a ELSE b

(***************************************************************************)
(* Python string primitives used by the program.                           *)
(***************************************************************************)

\* Code points str.strip() removes (str.isspace() is true for exactly these).
Whitespace ==
    {9, 10, 11, 12, 13, 28, 29, 30, 31, 32, 133, 160, 5760} \cup (8192..8202)
        \cup {8232, 8233, 8239, 8287, 12288}

\* str.lower() of one character.  U+0130 (capital I with dot above) is the
\* one code point whose lower case is two code points long: "i" + U+0307.
\* The table covers ASCII, Latin-1 and U+0130; every other code point of the
\* model's alphabet has no case.
LowerChar(c) ==
    IF c \in 65..90 THEN <<c + 32>>
    ELSE IF c \in (192..222) \ {215} THEN <<c + 32>>
    ELSE IF c = 304 THEN <<105, 775>>
    ELSE <<c>>

\* the lower case of s[a..b], character by character
RECURSIVE LowerRange(_, _, _)
LowerRange(s, a, b) ==
    IF a > b THEN << >>
    ELSE IF a = b THEN LowerChar(s[a])
    ELSE LowerRange(s, a, (a + b) \div 2) \o LowerRange(s, (a + b) \div 2 + 1, b)

\* s.lower()
Lower(s) == LowerRange(s, 1, Len(s))

\* sub occurs in s at 0-based index p
OccursAt(s, sub, p) ==
    /\ p >= 0
    /\ p + Len(sub) <= Len(s)
    /\ \A k \in 1..Len(sub) : s[p + k] = sub[k]

Occurrences(s, sub) == {p \in 0..(Len(s) - Len(sub)) : OccursAt(s, sub, p)}

\* sub in s
Contains(s, sub) == Occurrences(s, sub) # {}

\* s.find(sub): lowest index of an occurrence, -1 when there is none
Find(s, sub) ==
    IF Occurrences(s, sub) = {} THEN -1
    ELSE CHOOSE p \in Occurrences(s, sub) : \A q \in Occurrences(s, sub) : p <= q

\* s.rfind(sub): highest index of an occurrence, -1 when there is none
RFind(s, sub) ==
    IF Occurrences(s, sub) = {} THEN -1
    ELSE CHOOSE p \in Occurrences(s, sub) : \A q \in Occurrences(s, sub) : p >= q

\* s[:n] for n >= 0 (a slice end beyond the string is clamped)
Prefix(s, n) == SubSeq(s, 1, Min(n, Len(s)))

\* s[n:] for n >= 0
Suffix(s, n) == SubSeq(s, Min(n, Len(s)) + 1, Len(s))

\* s[-n:] for n > 0
LastChars(s, n) == SubSeq(s, Max(1, Len(s) - n + 1), Len(s))

\* s.strip()
Strip(s) ==
    LET keep == {k \in 1..Len(s) : s[k] \notin Whitespace}
    IN  IF keep = {} THEN << >>
        ELSE SubSeq(s, CHOOSE a \in keep : \A b \in keep : a <= b,
                       CHOOSE a \in keep : \A b \in keep : a >= b)

\* s.split(sep)[0]: the text before the first occurrence of sep
SplitFirst(s, sep) ==
    IF Contains(s, sep) THEN Prefix(s, Find(s, sep)) ELSE s

\* s.rsplit(sep, 1): split once, at the last occurrence of sep
RSplitOnce(s, sep) ==
    IF Contains(s, sep)
    THEN <<Prefix(s, RFind(s, sep)), Suffix(s, RFind(s, sep) + Len(sep))>>
    ELSE <<s>>

(***************************************************************************)
(* Configuration and literals of the program.                              *)
(***************************************************************************)

\* "I am available to join immediately, as I have completed all my academic
\* coursework."
MANDATORY_CLOSING_LINE ==
    <<73, 32, 97, 109, 32, 97, 118, 97, 105, 108, 97, 98, 108, 101, 32,
        116, 111, 32, 106, 111, 105, 110, 32, 105, 109, 109, 101, 100, 105,
        97, 116, 101, 108, 121, 44, 32, 97, 115, 32, 73, 32, 104, 97, 118,
        101, 32, 99, 111, 109, 112, 108, 101, 116, 101, 100, 32, 97, 108,
        108, 32, 109, 121, 32, 97, 99, 97, 100, 101, 109, 105, 99, 32, 99,
        111, 117, 114, 115, 101, 119, 111, 114, 107, 46>>

\* "\n\n" + MANDATORY_CLOSING_LINE + "\n\n" + "Best regards,\n"
\* + "Abhinav Prasad\n" + "Email: ...\n" + "Phone: ...\n" + "LinkedIn: ...\n"
\* + "GitHub: ..."
CLOSING_BLOCK ==
    <<10, 10>> \o MANDATORY_CLOSING_LINE \o <<10, 10>>
    \o <<66, 101, 115, 116, 32, 114, 101, 103, 97, 114, 100, 115, 44, 10>>
    \o <<65, 98, 104, 105, 110, 97, 118, 32, 80, 114, 97, 115, 97, 100, 10>>
    \o <<69, 109, 97, 105, 108, 58, 32, 97, 98, 104, 105, 110, 97, 118,
        112, 114, 97, 115, 97, 100, 50, 48, 48, 52, 97, 112, 64, 103, 109,
        97, 105, 108, 46, 99, 111, 109, 10>>
    \o <<80, 104, 111, 110, 101, 58, 32, 56, 57, 56, 57, 54, 50, 53, 54,
        54, 51, 10>>
    \o <<76, 105, 110, 107, 101, 100, 73, 110, 58, 32, 104, 116, 116, 112,
        115, 58, 47, 47, 119, 119, 119, 46, 108, 105, 110, 107, 101, 100,
        105, 110, 46, 99, 111, 109, 47, 105, 110, 47, 97, 98, 104, 105, 110,
        97, 118, 45, 112, 114, 97, 115, 97, 100, 45, 48, 97, 56, 57, 52, 98,
        50, 53, 49, 47, 10>>
    \o <<71, 105, 116, 72, 117, 98, 58, 32, 104, 116, 116, 112, 115, 58,
        47, 47, 103, 105, 116, 104, 117, 98, 46, 99, 111, 109, 47, 65, 98,
        104, 105, 105, 50, 52, 50, 48, 48, 52>>

max_retries == 4

\* "---END-OF-BODY---"
stop_phrase == <<45, 45, 45, 69, 78, 68, 45, 79, 70, 45, 66, 79, 68, 89, 45, 45, 45>>

\* ["Best regards,", "Sincerely,", "Thank you,",
\*  "I look forward to hearing from you."]
common_closings ==
    << <<66, 101, 115, 116, 32, 114, 101, 103, 97, 114, 100, 115, 44>>,
       <<83, 105, 110, 99, 101, 114, 101, 108, 121, 44>>,
       <<84, 104, 97, 110, 107, 32, 121, 111, 117, 44>>,
       <<73, 32, 108, 111, 111, 107, 32, 102, 111, 114, 119, 97, 114, 100,
        32, 116, 111, 32, 104, 101, 97, 114, 105, 110, 103, 32, 102, 114,
        111, 109, 32, 121, 111, 117, 46>> >>

\* a closing is cut only when it starts fewer than this many characters
\* before the end of the text
ClosingWindow == 200

\* the contact heuristic looks for "@" in this many trailing characters
ContactWindow == 100

At == <<64>>

Plus == <<43>>

BlankLine == <<10, 10>>

(***************************************************************************)
(* Post-processing of the model's text (generate_application_email, the    *)
(* part between the extraction of the content and the return).             *)
(***************************************************************************)

\* PrimaryCut with the text cut at the last stop phrase instead of the first
PrimaryCutAtLastMarker(email_content) ==
    IF Contains(email_content, stop_phrase)
    THEN Strip(Prefix(email_content, RFind(email_content, stop_phrase)))
    ELSE email_content

\* PrimaryCut with the strip applied whether or not the stop phrase is there
PrimaryCutAlwaysStrip(email_content) ==
    Strip(SplitFirst(email_content, stop_phrase))

\* 1. Primary cleanup: keep the text before the first stop phrase, stripped.
PrimaryCut(email_content) ==
    IF Contains(email_content, stop_phrase)
    THEN Strip(SplitFirst(email_content, stop_phrase))
    ELSE email_content

\* 2. Secondary cleanup: the loop over common_closings from entry k on.  idx
\* is a position in the lower-cased text; it is applied to the text itself.
RECURSIVE CutClosings(_, _)
CutClosings(email_content, k) ==
    IF k > Len(common_closings) THEN email_content
    ELSE LET idx == RFind(Lower(email_content), Lower(common_closings[k]))
         IN  IF idx # -1 /\ Len(email_content) - idx < ClosingWindow
             THEN Strip(Prefix(email_content, idx))
             ELSE CutClosings(email_content, k + 1)

SecondaryCut(email_content) == CutClosings(email_content, 1)

\* ContactCut without the guard that "@" is near the end
ContactCutUnguarded(email_content) ==
    LET parts == RSplitOnce(email_content, BlankLine)
    IN  IF Len(parts) > 1
           /\ (Contains(parts[2], At) \/ Contains(parts[2], Plus))
        THEN Strip(parts[1])
        ELSE email_content

\* Contact heuristic: drop the last blank-line-separated block when "@" is
\* near the end and that block holds "@" or "+".
ContactCut(email_content) ==
    IF Contains(LastChars(email_content, ContactWindow), At)
    THEN LET parts == RSplitOnce(email_content, BlankLine)
         IN  IF Len(parts) > 1
                /\ (Contains(parts[2], At) \/ Contains(parts[2], Plus))
             THEN Strip(parts[1])
             ELSE email_content
    ELSE email_content

\* AppendClosing that returns the text as soon as it already ends with a
\* sign-off of its own
AppendClosingUnlessSigned(email_content) ==
    IF Contains(Lower(email_content), Lower(common_closings[1]))
    THEN email_content \o BlankLine
    ELSE (email_content \o BlankLine) \o CLOSING_BLOCK

\* 3. and 4.: the separation newlines and the guaranteed closing block
AppendClosing(email_content) == (email_content \o BlankLine) \o CLOSING_BLOCK

(***************************************************************************)
(* The retry policy of the request loop.                                   *)
(***************************************************************************)

\* ShouldRetry that retries every HTTP error status
ShouldRetryAnyStatus(status_code, attempt) == attempt < max_retries - 1

\* except HTTPError: retry only a 429 that is not the last attempt
ShouldRetry(status_code, attempt) ==
    status_code = 429 /\ attempt < max_retries - 1

\* NextDelay with a linear instead of a doubling backoff
NextDelayLinear(delay) == delay + 1

\* last_delay *= 2
NextDelay(delay) == delay * 2

\* ContentMissing with "and" in place of "or"
ContentMissingBoth(jd, resume) == jd = << >> /\ resume = << >>

\* main: if not job_description or not resume_data
ContentMissing(jd, resume) == jd = << >> \/ resume = << >>

(***************************************************************************)
(* Inputs.  The text the API returns is a concatenation of at most         *)
(* MaxTokens fragments; the fragments are chosen so that every branch of   *)
(* the post-processing is taken on both sides of its window.               *)
(***************************************************************************)
MaxTokens == 3

Filler(n) == [k \in 1..n |-> 120]

\* "Best regards,\nSomeone\nemail@x.com"
SignOff == <<66, 101, 115, 116, 32, 114, 101, 103, 97, 114, 100, 115, 44, 10, 83, 111, 109, 101, 111, 110, 101, 10,
            101, 109, 97, 105, 108, 64, 120, 46, 99, 111, 109>>

Fragments ==
    { BlankLine,                    \* "\n\n"
      At,                           \* "@"
      Plus,                         \* "+"
      <<304>>,                      \* U+0130, capital I with dot above
      stop_phrase,
      common_closings[1],           \* "Best regards,"
      Lower(common_closings[2]),    \* "sincerely,"
      SignOff,
      Filler(ContactWindow - 1),
      Filler(ClosingWindow - 1 - Len(common_closings[1])) }

RECURSIVE Concat(_)
Concat(fs) == IF fs = << >> THEN << >> ELSE Head(fs) \o Concat(Tail(fs))

RawOutputs ==
    {Concat(fs) : fs \in UNION {[1..n -> Fragments] : n \in 1..MaxTokens}}

\* a file on disk: None when it does not exist, else Some(its content)
FileStates == {None, Some(<< >>), Some(<<32, 10>>), Some(<<32, 74, 68, 10>>)}

\* status codes for which raise_for_status() raises
ErrorStatuses == {429, 500, 401}

\* what makes an attempt raise something other than HTTPError: the request
\* itself fails, the body is not JSON, the content field is missing
Faults == {"network", "bad_json", "no_content"}

(***************************************************************************)
(* The program.                                                            *)
(***************************************************************************)
Init ==
    /\ pc = "check_args"
    /\ argc \in 1..3
    /\ jd_file \in FileStates
    /\ resume_file \in FileStates
    /\ job_description = None
    /\ resume_data = None
    /\ exit_status = None
    /\ printed = "nothing"
    /\ i = 0
    /\ last_delay = 1
    /\ sleeps = << >>
    /\ posts = << >>
    /\ raw_content = None
    /\ after_primary = None
    /\ after_secondary = None
    /\ after_contact = None
    /\ email_draft = None

genVars == <<i, last_delay, sleeps, posts, raw_content, after_primary,
             after_secondary, after_contact, email_draft>>

\* sys.exit(1)
Exit1 == pc' = "exit" /\ exit_status' = Some(1)

\* if len(sys.argv) < 3
CheckArgs ==
    /\ pc = "check_args"
    /\ IF argc < 3 THEN Exit1
       ELSE pc' = "read_jd" /\ UNCHANGED exit_status
    /\ UNCHANGED <<argc, jd_file, resume_file, job_description, resume_data,
                   printed, genVars>>

\* open(jd_file_path).read().strip(), FileNotFoundError exits
ReadJobDescription ==
    /\ pc = "read_jd"
    /\ IF jd_file = None
       THEN Exit1 /\ UNCHANGED job_description
       ELSE /\ job_description' = Some(Strip(jd_file[1]))
            /\ pc' = "read_resume"
            /\ UNCHANGED exit_status
    /\ UNCHANGED <<argc, jd_file, resume_file, resume_data, printed, genVars>>

\* open(resume_file_path).read().strip(), FileNotFoundError exits
ReadResume ==
    /\ pc = "read_resume"
    /\ IF resume_file = None
       THEN Exit1 /\ UNCHANGED resume_data
       ELSE /\ resume_data' = Some(Strip(resume_file[1]))
            /\ pc' = "check_content"
            /\ UNCHANGED exit_status
    /\ UNCHANGED <<argc, jd_file, resume_file, job_description, printed,
                   genVars>>

\* the emptiness check, then the call of generate_application_email up to
\* the head of its loop (last_delay = 1, first i of range(max_retries))
CheckContent ==
    /\ pc = "check_content"
    /\ IF ContentMissing(job_description[1], resume_data[1])
       THEN Exit1 /\ UNCHANGED <<i, last_delay>>
       ELSE /\ pc' = "post"
            /\ i' = 0
            /\ last_delay' = 1
            /\ UNCHANGED exit_status
    /\ UNCHANGED <<argc, jd_file, resume_file, job_description, resume_data,
                   printed, sleeps, posts, raw_content, after_primary,
                   after_secondary, after_contact, email_draft>>

cliVars == <<argc, jd_file, resume_file, job_description, resume_data,
             exit_status, printed>>

\* return None.  Every iteration of the loop either returns or, on a retried
\* 429, continues with i < max_retries - 1, so the return after the loop is
\* never reached.
ReturnNone ==
    /\ pc' = "returned"
    /\ email_draft' = None
    /\ UNCHANGED <<i, last_delay, sleeps>>

\* One loop iteration in which raise_for_status() raises HTTPError.
PostHttpError(status_code) ==
    /\ pc = "post"
    /\ i < max_retries
    /\ posts' = Append(posts, [status |-> status_code, fault |-> "http_error"])
    /\ IF ShouldRetry(status_code, i)
       THEN /\ sleeps' = Append(sleeps, last_delay)
            /\ last_delay' = NextDelay(last_delay)
            /\ i' = i + 1
            /\ pc' = "post"
            /\ UNCHANGED email_draft
       ELSE ReturnNone
    /\ UNCHANGED <<cliVars, raw_content, after_primary, after_secondary,
                   after_contact>>

\* One loop iteration in which the request, response.json() or the
\* extraction of the content raises: caught by "except Exception".
PostException(fault) ==
    /\ pc = "post"
    /\ i < max_retries
    /\ posts' = Append(posts, [status |-> IF fault = "network" THEN 0 ELSE 200,
                               fault |-> fault])
    /\ ReturnNone
    /\ UNCHANGED <<cliVars, raw_content, after_primary, after_secondary,
                   after_contact>>

\* One loop iteration in which the API answers 200 with a content string:
\* empty content raises ValueError, anything else is post-processed and
\* returned.
PostContent(content) ==
    /\ pc = "post"
    /\ i < max_retries
    /\ raw_content' = Some(content)
    /\ IF content = << >>
       THEN /\ posts' = Append(posts, [status |-> 200, fault |-> "empty_content"])
            /\ ReturnNone
            /\ UNCHANGED <<after_primary, after_secondary, after_contact>>
       ELSE LET cut1 == PrimaryCut(content)
                cut2 == SecondaryCut(cut1)
                cut3 == ContactCut(cut2)
            IN  /\ posts' = Append(posts, [status |-> 200, fault |-> "none"])
                /\ after_primary' = Some(cut1)
                /\ after_secondary' = Some(cut2)
                /\ after_contact' = Some(cut3)
                /\ email_draft' = Some(AppendClosing(cut3))
                /\ pc' = "returned"
                /\ UNCHANGED <<i, last_delay, sleeps>>
    /\ UNCHANGED cliVars

\* main after the call: print the draft or the failure notice
PrintDraft ==
    /\ pc = "returned"
    /\ printed' = IF email_draft # None THEN "draft" ELSE "failure"
    /\ exit_status' = Some(0)
    /\ pc' = "done"
    /\ UNCHANGED <<argc, jd_file, resume_file, job_description, resume_data,
                   genVars>>

Next ==
    \/ CheckArgs
    \/ ReadJobDescription
    \/ ReadResume
    \/ CheckContent
    \/ \E status_code \in ErrorStatuses : PostHttpError(status_code)
    \/ \E fault \in Faults : PostException(fault)
    \/ \E content \in RawOutputs \cup {<< >>} : PostContent(content)
    \/ PrintDraft

Spec == Init /\ [][Next]_vars

(***************************************************************************)
(* Properties.                                                             *)
(***************************************************************************)
Returned == pc \in {"returned", "done"}

Draft == email_draft[1]

Raw == raw_content[1]

EndsWith(s, t) ==
    Len(t) <= Len(s) /\ SubSeq(s, Len(s) - Len(t) + 1, Len(s)) = t

\* the sanitized-body portion of a final email: what precedes the appended
\* separator and closing block
BodyOf(final) ==
    SubSeq(final, 1, Len(final) - Len(CLOSING_BLOCK) - Len(BlankLine))

Statuses == [k \in 1..Len(posts) |-> posts[k].status]

\* C1: every email that generate_application_email returns ends with the
\* fixed closing block, whatever text the API returned.
ClosingBlockAlwaysLast ==
    email_draft # None => EndsWith(Draft, CLOSING_BLOCK)

\* C1 witness: an email was returned for a text that holds the stop marker,
\* a sign-off phrase and an "@".
AdversarialOutputFinalized ==
    /\ email_draft # None
    /\ Contains(Raw, stop_phrase)
    /\ Contains(Raw, SignOff)

\* C2: when the API text contains the stop marker, the body of the returned
\* email is the text before the first marker, stripped.
BodyIsTextBeforeMarker ==
    (email_draft # None /\ Contains(Raw, stop_phrase))
        => BodyOf(Draft) = Strip(Prefix(Raw, Find(Raw, stop_phrase)))

\* C3: the stop marker never occurs in a returned email.
NoStopMarkerInDraft ==
    email_draft # None => ~Contains(Draft, stop_phrase)

\* C3 witness: an email was returned for a text with several stop markers.
SeveralMarkersFinalized ==
    /\ email_draft # None
    /\ Cardinality(Occurrences(Raw, stop_phrase)) >= 2

\* C4: after three 429 answers and a success the function has slept 1, 2, 4
\* and returns the email from the 4th attempt; after four 429 answers it
\* returns None; there is never a 5th HTTP call.
BackoffSchedule ==
    /\ Len(posts) <= 4
    /\ (Statuses = <<429, 429, 429, 200>> /\ posts[4].fault = "none")
           => /\ sleeps = <<1, 2, 4>>
              /\ Returned
              /\ email_draft # None
    /\ Statuses = <<429, 429, 429, 429>>
           => /\ sleeps = <<1, 2, 4>>
              /\ Returned
              /\ email_draft = None

\* C4 witness: the 4th attempt succeeded after three rate-limit answers.
FourthAttemptSucceeded ==
    /\ Statuses = <<429, 429, 429, 200>>
    /\ email_draft # None

\* the k-th attempt failed and was not a 429 with retry budget left
TerminalFailure(k) ==
    /\ posts[k].fault # "none"
    /\ ~(posts[k].status = 429 /\ k < 4)

\* C5: an attempt that fails otherwise than by a 429 with retry budget left
\* is the last HTTP call; the function has returned None, without a sleep
\* for that attempt and without any post-processed text.
FailureReturnsNoneAtOnce ==
    \A k \in 1..Len(posts) :
        TerminalFailure(k)
            => /\ k = Len(posts)
               /\ Returned
               /\ email_draft = None
               /\ Len(sleeps) = k - 1
               /\ after_primary = None
               /\ after_secondary = None
               /\ after_contact = None

\* C5 witness: a 500 answer ended the call.
ServerErrorEndedCall ==
    /\ posts # << >>
    /\ posts[Len(posts)].status = 500
    /\ Returned

\* no stop marker, no closing phrase in any case, no "@" in the last 100
\* characters
NoCutApplies(s) ==
    /\ ~Contains(s, stop_phrase)
    /\ \A k \in 1..Len(common_closings) :
           ~Contains(Lower(s), Lower(common_closings[k]))
    /\ ~Contains(LastChars(s, 100), At)

\* C6 as stated: with no stop marker, no closing phrase and no "@" in the
\* last 100 characters, the email is the stripped API text followed by the
\* separator and the closing block.
UntouchedBodyIsStrippedRaw ==
    (email_draft # None /\ NoCutApplies(Raw))
        => Draft = (Strip(Raw) \o BlankLine) \o CLOSING_BLOCK

\* C6: with no stop marker, no closing phrase and no "@" in the last 100
\* characters, the email is the API text exactly as received, surrounding
\* whitespace included, followed by the separator and the closing block.
UntouchedBodyIsRaw ==
    (email_draft # None /\ NoCutApplies(Raw))
        => Draft = (Raw \o BlankLine) \o CLOSING_BLOCK

\* C6 witness: such a text with surrounding whitespace was finalized.
UntouchedPaddedOutputFinalized ==
    /\ email_draft # None
    /\ NoCutApplies(Raw)
    /\ Strip(Raw) # Raw

ValidInputs ==
    /\ argc >= 3
    /\ jd_file # None
    /\ resume_file # None
    /\ Strip(jd_file[1]) # << >>
    /\ Strip(resume_file[1]) # << >>

\* C7: generate_application_email is entered, and an HTTP call made, only
\* with two arguments and two existing files of non-blank content; with
\* other inputs a finished process has exit status 1 and made no call.
NoHttpBeforeValidation ==
    /\ (pc \in {"post", "returned", "done"} \/ posts # << >>) => ValidInputs
    /\ (~ValidInputs /\ pc \in {"exit", "done"})
           => (exit_status = Some(1) /\ posts = << >>)

\* C7 witness: the process exited on a resume file of whitespace only.
BlankResumeExited ==
    /\ pc = "exit"
    /\ argc >= 3
    /\ job_description # None
    /\ job_description[1] # << >>
    /\ resume_file \notin {None, Some(<< >>)}
    /\ resume_data = Some(<< >>)
    /\ exit_status = Some(1)

\* C8: when the API text has no stop marker and ends with
\* "Best regards,\nSomeone\nemail@x.com", the body of the returned email is
\* taken from the text in front of that fragment only.
SignOffExcluded ==
    (email_draft # None /\ ~Contains(Raw, stop_phrase) /\ EndsWith(Raw, SignOff))
        => Contains(Prefix(Raw, Len(Raw) - Len(SignOff)), BodyOf(Draft))

\* phrase occurs in s at 0-based index p, letter case ignored
OccursAtIgnoringCase(s, phrase, p) ==
    /\ p + Len(phrase) <= Len(s)
    /\ \A k \in 1..Len(phrase) : LowerChar(s[p + k]) = LowerChar(phrase[k])

OccurrencesIgnoringCase(s, phrase) ==
    {p \in 0..(Len(s) - Len(phrase)) : OccursAtIgnoringCase(s, phrase, p)}

\* the secondary cut as C9 states it, scanning from phrase k on
RECURSIVE CutAtFirstNearClosing(_, _)
CutAtFirstNearClosing(s, k) ==
    IF k > Len(common_closings) THEN s
    ELSE LET occ == OccurrencesIgnoringCase(s, common_closings[k])
             last == CHOOSE p \in occ : \A q \in occ : p >= q
         IN  IF occ # {} /\ Len(s) - last < 200
             THEN Strip(Prefix(s, last))
             ELSE CutAtFirstNearClosing(s, k + 1)

\* C9: the secondary cut truncates the text before the last occurrence,
\* letter case ignored, of the first phrase of the list whose last
\* occurrence starts fewer than 200 characters before the end, strips the
\* result, and applies no other phrase.
SecondaryCutAtFirstNearClosing ==
    email_draft # None
        => after_secondary[1] = CutAtFirstNearClosing(after_primary[1], 1)

BlankLineStarts(s) == {k \in 1..(Len(s) - 1) : s[k] = 10 /\ s[k + 1] = 10}

LastBlankLine(s) ==
    CHOOSE k \in BlankLineStarts(s) : \A m \in BlankLineStarts(s) : k >= m

\* the contact heuristic as C10 states it
ContactCutAsStated(s) ==
    IF /\ \E k \in 1..Len(s) : s[k] = 64 /\ Len(s) - k < 100
       /\ BlankLineStarts(s) # {}
       /\ \E k \in (LastBlankLine(s) + 2)..Len(s) : s[k] \in {64, 43}
    THEN Strip(SubSeq(s, 1, LastBlankLine(s) - 1))
    ELSE s

\* C10: the contact heuristic changes the text only when "@" is within its
\* last 100 characters, it has a blank-line separator and the part after the
\* last separator holds "@" or "+"; the result is then the part before that
\* separator, stripped.
ContactHeuristicAsStated ==
    email_draft # None
        => after_contact[1] = ContactCutAsStated(after_secondary[1])

\* C10 witness: the heuristic dropped a last block that holds "+" and no "@".
PhoneBlockDropped ==
    /\ email_draft # None
    /\ after_contact # after_secondary
    /\ ~Contains(RSplitOnce(after_secondary[1], BlankLine)[2], At)

====
